---------------------------- MODULE Spec2Model ----------------------------
(***************************************************************************)
(* Model of keytest.go: the deterministic byte stream detRand (newRand,    *)
(* Read), the key derivation DetKeyGen.generateKey / NewKeyGen, and the    *)
(* service KeyService.GenerateAndImportKey with its injected importer.     *)
(*                                                                         *)
(* Library functions (crypto/sha256, crypto/ed25519, libp2p peer/cid,      *)
(* x509, pem) are modelled as ideal injective constructors: the value a    *)
(* function returns records the function and its argument, so two results  *)
(* are equal exactly when the same function was applied to equal inputs.   *)
(* A byte of a digest is the pair (digest, index).                         *)
(***************************************************************************)
EXTENDS Integers, Sequences, FiniteSets, TLC

\* len of the stream buffer: make([]byte, 8192)
BufSize == 8192
\* sha256.Size, the block step of the chaining loop
HashSize == 32

(***************************************************************************)
(* Bytes.  A literal byte (of a seed, or a zero of a fresh make()) is      *)
(* [d |-> Raw, i |-> value]; byte i of a digest d is [d |-> d, i |-> i].   *)
(***************************************************************************)
Raw == [root |-> <<>>, depth |-> 0]

Lit(v) == [d |-> Raw, i |-> v]

Min(a, b) == IF a < b THEN a ELSE b

\* make([]byte, n): n zero bytes
Make(n) == [j \in 1..n |-> Lit(0)]

\* s[lo:hi] with Go's 0-based half-open bounds
Slice(s, lo, hi) == SubSeq(s, lo + 1, hi)

\* number of elements copy(dst[at:], src) copies
CopyCount(dst, at, src) == Min(Len(src), Len(dst) - at)

\* dst after copy(dst[at:], src)
Copy(dst, at, src) ==
    LET n == CopyCount(dst, at, src)
    IN  SubSeq(dst, 1, at) \o SubSeq(src, 1, n) \o SubSeq(dst, at + n + 1, Len(dst))

(***************************************************************************)
(* SHA-256 as an ideal hash.  The digest of x is named by x itself, kept   *)
(* in a normal form that stays small: x is cut into maximal runs of        *)
(* consecutive bytes of one digest, and the digest of the 32 bytes of a    *)
(* digest [root, depth] is [root, depth + 1].                              *)
(***************************************************************************)
IsRunStart(x, j) == j = 1 \/ x[j].d # x[j-1].d \/ x[j].i # x[j-1].i + 1

RunStarts(x) == SelectSeq([j \in 1..Len(x) |-> j], LAMBDA j : IsRunStart(x, j))

RunsOf(x) ==
    CHOOSE rs \in
        { [k \in 1..Len(st) |->
             LET lo == st[k]
                 hi == IF k < Len(st) THEN st[k+1] - 1 ELSE Len(x)
             IN  [d |-> x[lo].d, lo |-> x[lo].i, hi |-> x[hi].i]] :
          st \in {RunStarts(x)} } : TRUE

\* the runs of x, with x computed once
Runs(x) == CHOOSE rs \in {RunsOf(v) : v \in {x}} : TRUE

IsDigestBytes(x) ==
    /\ Len(x) = HashSize
    /\ x[1].d.depth >= 1
    /\ \A j \in 1..HashSize : x[j].d = x[1].d /\ x[j].i = j - 1

SHA256(x) ==
    IF IsDigestBytes(x)
    THEN [root |-> x[1].d.root, depth |-> x[1].d.depth + 1]
    ELSE [root |-> Runs(x), depth |-> 1]

\* hasher.Sum(nil): the 32 bytes of a digest
Sum(dg) ==
    CHOOSE b \in { [j \in 1..HashSize |-> [d |-> v, i |-> j - 1]] : v \in {dg} } : TRUE

(***************************************************************************)
(* The variables hold a byte string as its runs, Runs(x), which name x     *)
(* one to one; Bytes gives the bytes back.                                 *)
(***************************************************************************)
RunBytes(run) ==
    CHOOSE b \in { [k \in 1..(v.hi - v.lo + 1) |-> [d |-> v.d, i |-> v.lo + k - 1]] :
                      v \in {run} } : TRUE

\* the bytes of runs[lo..hi] (by halving, to keep the evaluation shallow)
RECURSIVE BytesOf(_, _, _)
BytesOf(runs, lo, hi) ==
    IF lo > hi THEN <<>>
    ELSE IF lo = hi THEN RunBytes(runs[lo])
    ELSE LET mid == (lo + hi) \div 2
         IN  BytesOf(runs, lo, mid) \o BytesOf(runs, mid + 1, hi)

Bytes(runs) == BytesOf(runs, 1, Len(runs))

\* Len(Bytes(runs[lo..hi]))
RECURSIVE ByteLenOf(_, _, _)
ByteLenOf(runs, lo, hi) ==
    IF lo > hi THEN 0
    ELSE IF lo = hi THEN runs[lo].hi - runs[lo].lo + 1
    ELSE LET mid == (lo + hi) \div 2
         IN  ByteLenOf(runs, lo, mid) + ByteLenOf(runs, mid + 1, hi)

ByteLen(runs) == ByteLenOf(runs, 1, Len(runs))

\* Runs(x \o y) from a = Runs(x) and b = Runs(y)
CatRuns(a, b) ==
    IF Len(a) = 0 THEN b
    ELSE IF Len(b) = 0 THEN a
    ELSE LET la == a[Len(a)]
             fb == b[1]
         IN  IF la.d = fb.d /\ fb.lo = la.hi + 1
             THEN SubSeq(a, 1, Len(a) - 1)
                    \o <<[d |-> la.d, lo |-> la.lo, hi |-> fb.hi]>>
                    \o SubSeq(b, 2, Len(b))
             ELSE a \o b

\* a detRand as the variables hold it, and back
Pack(rr) == [data |-> Runs(rr.data), offset |-> rr.offset]

Unpack(pr) == [data |-> Bytes(pr.data), offset |-> pr.offset]

(***************************************************************************)
(* detRand                                                                 *)
(***************************************************************************)
\* mutant of ChainStep: every block is the hash of the first block
ChainStep_HashFirstBlock(data, i) ==
    Copy(data, i, Sum(SHA256(Slice(data, 0, HashSize))))

\* the body of the chaining loop at block offset i
ChainStep(data, i) ==
    Copy(data, i, Sum(SHA256(Slice(data, i - HashSize, i))))

\* for i := from; i < to; i += 32 { body }, from and to multiples of 32 (the
\* range is halved to keep the evaluation shallow; the order is the loop's)
RECURSIVE ChainLoop(_, _, _)
ChainLoop(data, from, to) ==
    IF from >= Len(data) \/ from >= to THEN data
    ELSE IF to - from <= HashSize THEN ChainStep(data, from)
    ELSE LET mid == from + ((to - from) \div (2 * HashSize)) * HashSize
         IN  ChainLoop(ChainLoop(data, from, mid), mid, to)

newRand(seed) ==
    LET initial == Sum(SHA256(seed))
        data    == Copy(Make(BufSize), 0, initial)
    IN  [data |-> ChainLoop(data, HashSize, Len(data)), offset |-> 0]

\* mutant of Recycle: the digest of the first block, not of the buffer
Recycle_HashFirstBlock(r) ==
    LET newData == Sum(SHA256(Slice(r.data, 0, HashSize)))
    IN  [data |-> Copy(r.data, 0, newData), offset |-> 0]

\* mutant of Recycle: the buffer becomes the 32-byte digest
Recycle_ReplaceBuffer(r) ==
    [data |-> Sum(SHA256(r.data)), offset |-> 0]

\* the branch of Read taken when r.offset >= len(r.data)
Recycle(r) ==
    LET newData == Sum(SHA256(r.data))
    IN  [data |-> Copy(r.data, 0, newData), offset |-> 0]

\* mutant of Read: end of data instead of recycling
Read_EOF(r, plen) ==
    IF r.offset >= Len(r.data)
    THEN [r |-> r, n |-> 0, err |-> "EOF", p |-> <<>>]
    ELSE LET n == Min(plen, Len(r.data) - r.offset)
         IN  [r   |-> [data |-> r.data, offset |-> r.offset + n],
              n   |-> n,
              err |-> "nil",
              p   |-> Slice(r.data, r.offset, r.offset + n)]

\* mutant of Read: recycles only past the buffer end (> for >=)
Read_NoRecycleAtEnd(r, plen) ==
    LET r1 == IF r.offset > Len(r.data) THEN Recycle(r) ELSE r
        n  == Min(plen, Len(r1.data) - r1.offset)
    IN  [r   |-> [data |-> r1.data, offset |-> r1.offset + n],
         n   |-> n,
         err |-> "nil",
         p   |-> Slice(r1.data, r1.offset, r1.offset + n)]

\* mutant of Read: recycles as soon as p does not fit in what is left
Read_RecycleEarly(r, plen) ==
    LET r1 == IF r.offset + plen > Len(r.data) THEN Recycle(r) ELSE r
        n  == Min(plen, Len(r1.data) - r1.offset)
    IN  [r   |-> [data |-> r1.data, offset |-> r1.offset + n],
         n   |-> n,
         err |-> "nil",
         p   |-> Slice(r1.data, r1.offset, r1.offset + n)]

\* r.Read(p) with len(p) = plen: the stream afterwards, n, err and p[:n]
Read(r, plen) ==
    LET r1 == IF r.offset >= Len(r.data) THEN Recycle(r) ELSE r
        n  == Min(plen, Len(r1.data) - r1.offset)
    IN  [r   |-> [data |-> r1.data, offset |-> r1.offset + n],
         n   |-> n,
         err |-> "nil",
         p   |-> Slice(r1.data, r1.offset, r1.offset + n)]

(***************************************************************************)
(* The library calls of generateKey, as constructors                       *)
(***************************************************************************)
\* ed25519.NewKeyFromSeed(seed)
NewKeyFromSeed(s) == [fn |-> "ed25519.NewKeyFromSeed", arg |-> s]

\* privateKey.Public()
Public(priv) == [fn |-> "Public", arg |-> priv]

\* peer.ToCid(peer.IDFromPublicKey(crypto.UnmarshalEd25519PublicKey(pub)))
\*     .StringOfBase(multibase.Base36)
CidBase36(pub) == [fn |-> "cid.base36", arg |-> [fn |-> "peer.ID", arg |-> pub]]

\* pem.Encode of a "PRIVATE KEY" block of x509.MarshalPKCS8PrivateKey(priv)
PemPKCS8(priv) == [fn |-> "pem.PRIVATE KEY", arg |-> [fn |-> "pkcs8", arg |-> priv]]

(***************************************************************************)
(* Bounds and inputs                                                       *)
(***************************************************************************)
\* "", "a", "test" as []byte
Seeds == { <<>>, <<Lit(97)>>, <<Lit(116), Lit(101), Lit(115), Lit(116)>> }

\* len(p) of the Read calls: empty, one block, up to the last block, the
\* whole buffer, more than the buffer
ReadSizes == {0, 32, 8160, 8192, 9000}

\* Read calls made on one stream
MaxReads == 3

\* the collecting caller: its seeds ("a", "test"), the bytes it wants, and
\* the most it asks of one Read
LiveSeeds == { <<Lit(97)>>, <<Lit(116), Lit(101), Lit(115), Lit(116)>> }

Wants == {1, 8192, 8193, 16385}

Chunks == {4096, 9000}

\* concurrent runs of main, their key names ("a", "b"), and what the
\* importer answers
NumProcs == 2

Procs == 1..NumProcs

Names == { <<Lit(97)>>, <<Lit(98)>> }

ImportErrs == {"nil", "IPFS API returned error status"}

NoRead == [plen |-> 0, n |-> 0, err |-> "nil", off |-> 0]

NoStream == [data |-> <<>>, offset |-> 0]

NoGen == [keyID |-> "", keyData |-> ""]

NoErr == [msg |-> "nil", cause |-> "nil"]

VARIABLES
    seed,      \* the argument of newRand
    r,         \* the detRand: [data, offset]
    out,       \* history: the bytes returned so far, p[:n] of every Read in order
    outLen,    \* history: how many they are
    calls,     \* history: number of Read calls made
    cycles,    \* history: number of calls that took the recycling branch
    last,      \* history: len(p), n, err of the last Read and r.offset before it
    want,      \* the collecting caller: number of bytes it collects
    pc,        \* per run of main: where it is
    name,      \* per run: os.Args[1]
    reader,    \* per run: generateKey's reader
    reads,     \* per run: the Read calls generateKey made, [plen, n, err, off] each
    seedBytes, \* per run: generateKey's seedBytes
    privKey,   \* per run: generateKey's privateKey
    gen,       \* per run: the DetKeyGen g: [keyID, keyData]
    imports,   \* per run: the ImportKey calls made, [name, keyData] each
    importErr, \* per run: what ImportKey returned
    ret        \* per run: what GenerateAndImportKey returned

streamVars == <<seed, r, out, outLen, calls, cycles, last, want>>

keyVars == <<pc, name, reader, reads, seedBytes, privKey, gen, imports, importErr, ret>>

vars == <<streamVars, keyVars>>

NoStreamVars ==
    /\ seed = <<>>
    /\ r = NoStream
    /\ out = <<>>
    /\ outLen = 0
    /\ calls = 0
    /\ cycles = 0
    /\ last = NoRead
    /\ want = 0

NoKeyVars ==
    /\ pc = [p \in Procs |-> "idle"]
    /\ name = [p \in Procs |-> <<>>]
    /\ reader = [p \in Procs |-> NoStream]
    /\ reads = [p \in Procs |-> <<>>]
    /\ seedBytes = [p \in Procs |-> <<>>]
    /\ privKey = [p \in Procs |-> ""]
    /\ gen = [p \in Procs |-> NoGen]
    /\ imports = [p \in Procs |-> <<>>]
    /\ importErr = [p \in Procs |-> "nil"]
    /\ ret = [p \in Procs |-> NoErr]

(***************************************************************************)
(* Spec: one stream, read with any sizes                                   *)
(***************************************************************************)
Init ==
    /\ seed \in Seeds
    /\ r = Pack(newRand(seed))
    /\ out = <<>>
    /\ outLen = 0
    /\ calls = 0
    /\ cycles = 0
    /\ last = NoRead
    /\ want = 0
    /\ NoKeyVars

\* one call r.Read(p) with len(p) = plen
DoRead(plen) ==
    \E r0 \in {Unpack(r)} : \E res \in {Read(r0, plen)} :
        /\ r' = Pack(res.r)
        /\ out' = CatRuns(out, Runs(res.p))
        /\ outLen' = outLen + Len(res.p)
        /\ calls' = calls + 1
        /\ cycles' = cycles + (IF r.offset >= ByteLen(r.data) THEN 1 ELSE 0)
        /\ last' = [plen |-> plen, n |-> res.n, err |-> res.err, off |-> r.offset]
        /\ UNCHANGED <<seed, want, keyVars>>

ReadStep == calls < MaxReads /\ \E plen \in ReadSizes : DoRead(plen)

Next == ReadStep

Spec == Init /\ [][Next]_vars

(***************************************************************************)
(* LiveSpec: a caller that repeats Read, each time with a non-empty p no   *)
(* longer than what it still misses, until it has collected want bytes.    *)
(***************************************************************************)
LiveInit ==
    /\ seed \in LiveSeeds
    /\ r = Pack(newRand(seed))
    /\ out = <<>>
    /\ outLen = 0
    /\ calls = 0
    /\ cycles = 0
    /\ last = NoRead
    /\ want \in Wants
    /\ NoKeyVars

Collect ==
    /\ outLen < want
    /\ \E c \in Chunks : DoRead(Min(c, want - outLen))

\* a Read with an empty p, which collects nothing
Probe == calls < MaxReads /\ outLen < want /\ DoRead(0)

LiveNext == Collect \/ Probe

LiveSpec == LiveInit /\ [][LiveNext]_vars /\ WF_vars(Collect)

(***************************************************************************)
(* KeySpec: concurrent runs of main, each NewKeyGen(name) followed by      *)
(* service.GenerateAndImportKey(name), interleaved statement by statement. *)
(***************************************************************************)
\* generateKey(name) run alone, from its first statement to its last: the
\* DetKeyGen it leaves
generateKey(nm) ==
    LET rd0  == newRand(nm)
        res  == Read(rd0, HashSize)
        sb   == Copy(Make(HashSize), 0, res.p)
        priv == NewKeyFromSeed(sb)
    IN  [keyID |-> CidBase36(Public(priv)), keyData |-> PemPKCS8(priv)]

\* mutant of ReaderOf: one reader variable shared by all calls
ReaderOf_Global(p) == 1

\* reader := ... declares a variable of the call: each run has its own
ReaderOf(p) == p

KeyInit ==
    /\ NoStreamVars
    /\ pc = [p \in Procs |-> "newRand"]
    /\ name \in [Procs -> Names]
    /\ reader = [p \in Procs |-> NoStream]
    /\ reads = [p \in Procs |-> <<>>]
    /\ seedBytes = [p \in Procs |-> <<>>]
    /\ privKey = [p \in Procs |-> ""]
    /\ gen = [p \in Procs |-> NoGen]
    /\ imports = [p \in Procs |-> <<>>]
    /\ importErr = [p \in Procs |-> "nil"]
    /\ ret = [p \in Procs |-> NoErr]

\* g := &DetKeyGen{}; reader := newRand(name)
GK_NewRand(p) ==
    /\ pc[p] = "newRand"
    /\ \E rd \in {Pack(newRand(name[p]))} :
           reader' = [reader EXCEPT ![ReaderOf(p)] = rd]
    /\ pc' = [pc EXCEPT ![p] = "read"]
    /\ UNCHANGED <<name, reads, seedBytes, privKey, gen, imports, importErr, ret,
                   streamVars>>

\* mutant of GK_Read: a first Read is discarded, the seed is the second
GK_Read_Twice(p) ==
    /\ pc[p] = "read"
    /\ \E r0 \in {Unpack(reader[ReaderOf(p)])} : \E skip \in {Read(r0, HashSize)} :
       \E res \in {Read(skip.r, HashSize)} :
           /\ reader' = [reader EXCEPT ![ReaderOf(p)] = Pack(res.r)]
           /\ reads' = [reads EXCEPT ![p] =
                  @ \o << [plen |-> HashSize, n |-> skip.n, err |-> skip.err, off |-> r0.offset],
                          [plen |-> HashSize, n |-> res.n, err |-> res.err,
                           off |-> skip.r.offset] >>]
           /\ seedBytes' = [seedBytes EXCEPT ![p] = Copy(Make(HashSize), 0, res.p)]
           /\ pc' = [pc EXCEPT ![p] = IF res.err # "nil" THEN "exit1" ELSE "derive"]
    /\ UNCHANGED <<name, privKey, gen, imports, importErr, ret, streamVars>>

\* seedBytes := make([]byte, 32); _, err := reader.Read(seedBytes); on an
\* error generateKey and NewKeyGen return it and main exits
GK_Read(p) ==
    /\ pc[p] = "read"
    /\ \E r0 \in {Unpack(reader[ReaderOf(p)])} : \E res \in {Read(r0, HashSize)} :
           /\ reader' = [reader EXCEPT ![ReaderOf(p)] = Pack(res.r)]
           /\ reads' = [reads EXCEPT ![p] =
                  Append(@, [plen |-> HashSize, n |-> res.n, err |-> res.err,
                             off |-> r0.offset])]
           /\ seedBytes' = [seedBytes EXCEPT ![p] = Copy(Make(HashSize), 0, res.p)]
           /\ pc' = [pc EXCEPT ![p] = IF res.err # "nil" THEN "exit1" ELSE "derive"]
    /\ UNCHANGED <<name, privKey, gen, imports, importErr, ret, streamVars>>

\* privateKey := ed25519.NewKeyFromSeed(seedBytes) ... g.keyID = cidStr
GK_Derive(p) ==
    /\ pc[p] = "derive"
    /\ privKey' = [privKey EXCEPT ![p] = NewKeyFromSeed(seedBytes[p])]
    /\ gen' = [gen EXCEPT ![p].keyID = CidBase36(Public(privKey'[p]))]
    /\ pc' = [pc EXCEPT ![p] = "export"]
    /\ UNCHANGED <<name, reader, reads, seedBytes, imports, importErr, ret,
                   streamVars>>

\* privateKeyBytes, err := x509.MarshalPKCS8PrivateKey(privateKey) ...
\* g.keyData = pemBuf.Bytes(); return nil, and NewKeyGen returns g
GK_Export(p) ==
    /\ pc[p] = "export"
    /\ gen' = [gen EXCEPT ![p].keyData = PemPKCS8(privKey[p])]
    /\ pc' = [pc EXCEPT ![p] = "call"]
    /\ UNCHANGED <<name, reader, reads, seedBytes, privKey, imports, importErr, ret,
                   streamVars>>

\* keyData := s.generator.GetKeyData(); s.importer.ImportKey(name, keyData)
\* is entered and sends its request (client.Do); the run then waits for the
\* answer while the other runs go on
ImportCall(p) ==
    /\ pc[p] = "call"
    /\ imports' = [imports EXCEPT ![p] =
           Append(@, [name |-> name[p], keyData |-> gen[p].keyData])]
    /\ pc' = [pc EXCEPT ![p] = "wait"]
    /\ UNCHANGED <<name, reader, reads, seedBytes, privKey, gen, importErr, ret,
                   streamVars>>

\* mutant of ImportAnswer: an ImportKey that failed is called once more
ImportAnswer_Retry(p) ==
    /\ pc[p] = "wait"
    /\ \E e \in ImportErrs :
           /\ importErr' = [importErr EXCEPT ![p] = e]
           /\ pc' = [pc EXCEPT ![p] =
                  IF e # "nil" /\ Len(imports[p]) < 2 THEN "call" ELSE "return"]
    /\ UNCHANGED <<name, reader, reads, seedBytes, privKey, gen, imports, ret,
                   streamVars>>

\* the answer arrives and ImportKey returns, nil or an error: err := ...
ImportAnswer(p) ==
    /\ pc[p] = "wait"
    /\ \E e \in ImportErrs : importErr' = [importErr EXCEPT ![p] = e]
    /\ pc' = [pc EXCEPT ![p] = "return"]
    /\ UNCHANGED <<name, reader, reads, seedBytes, privKey, gen, imports, ret,
                   streamVars>>

\* if err != nil { return fmt.Errorf("failed to import key: %v", err) };
\* return nil; main exits with 1 on an error and prints the key ID otherwise
ImportReturn(p) ==
    /\ pc[p] = "return"
    /\ ret' = [ret EXCEPT ![p] =
           IF importErr[p] # "nil"
           THEN [msg |-> "failed to import key", cause |-> importErr[p]]
           ELSE NoErr]
    /\ pc' = [pc EXCEPT ![p] = IF importErr[p] # "nil" THEN "exit1" ELSE "exit0"]
    /\ UNCHANGED <<name, reader, reads, seedBytes, privKey, gen, imports, importErr,
                   streamVars>>

KeyNext ==
    \E p \in Procs :
        \/ GK_NewRand(p)
        \/ GK_Read(p)
        \/ GK_Derive(p)
        \/ GK_Export(p)
        \/ ImportCall(p)
        \/ ImportAnswer(p)
        \/ ImportReturn(p)

KeySpec == KeyInit /\ [][KeyNext]_vars

(***************************************************************************)
(* The stream read one byte at a time: the reference the other ways of     *)
(* reading are compared with.                                              *)
(***************************************************************************)
\* k calls Read(p) with len(p) = 1 (the calls are split in halves to keep
\* the evaluation shallow; the order is the calls'; the test of r0 makes
\* the stream of the earlier calls be computed before the later ones)
RECURSIVE ReadBytewise(_, _)
ReadBytewise(r0, k) ==
    IF r0.offset < 0 \/ k = 0 THEN [r |-> r0, out |-> <<>>]
    ELSE IF k = 1 THEN LET res == Read(r0, 1) IN [r |-> res.r, out |-> res.p]
    ELSE LET a == ReadBytewise(r0, k \div 2)
             b == ReadBytewise(a.r, k - (k \div 2))
         IN  [r |-> b.r, out |-> a.out \o b.out]

\* bytes available to a Read entered with r.offset = off
Avail(off) == IF off >= BufSize THEN BufSize ELSE BufSize - off

(***************************************************************************)
(* C1 (as stated): every Read returns exactly len(p) bytes and no error.   *)
(***************************************************************************)
C1_ExactlyN == calls > 0 => (last.n = last.plen /\ last.err = "nil")

(***************************************************************************)
(* C1 (amended): every Read returns no error and min(len(p), bytes left    *)
(* in the buffer after the recycling it may do) bytes: exactly len(p)      *)
(* when len(p) is at most what is left, fewer otherwise.                   *)
(***************************************************************************)
C1_ShortRead ==
    calls > 0 =>
        /\ last.err = "nil"
        /\ last.n = Min(last.plen, Avail(last.off))
        /\ (last.plen <= Avail(last.off) => last.n = last.plen)
        /\ (last.plen > Avail(last.off) => last.n < last.plen)

C1_Witness == calls > 0 /\ last.plen > Avail(last.off) /\ last.off > 0

(***************************************************************************)
(* C3: the k-th byte returned depends only on the seed and k: whatever the *)
(* sizes of the reads, the bytes returned so far are a prefix of the bytes *)
(* the same seed gives when read one byte at a time, so any two ways of    *)
(* reading agree on their common prefix.                                   *)
(***************************************************************************)
C3_ChunkingIndependent ==
    Bytes(out) = ReadBytewise(newRand(seed), outLen).out

\* a read that straddled the buffer end, then bytes of the recycled buffer
C3_Witness == cycles >= 1 /\ outLen > BufSize /\ calls >= 3

(***************************************************************************)
(* C4 (as stated): when the reads on a fresh stream go beyond the 8192     *)
(* bytes of the buffer, no Read returns an error or fewer bytes than it    *)
(* was asked for, and the 8193rd byte returned is the first byte of        *)
(* SHA-256 of the 8192-byte buffer as newRand built it.                    *)
(***************************************************************************)
C4_NotTruncated ==
    /\ last.err = "nil"
    /\ (calls > 0 /\ last.off + last.plen > BufSize => last.n = last.plen)
    /\ (outLen > BufSize =>
            Bytes(out)[BufSize + 1] = Sum(SHA256(newRand(seed).data))[1])

(***************************************************************************)
(* C4 (amended): when the reads on a fresh stream go beyond the 8192 bytes *)
(* of the buffer, no Read returns an error; a Read that asks for more than *)
(* is left before the buffer end returns just the bytes left there; a Read *)
(* with a non-empty p entered at the buffer end recycles and returns       *)
(* min(len(p), 8192) bytes; and the 8193rd byte returned is the first byte *)
(* of SHA-256 of the 8192-byte buffer as newRand built it.                 *)
(***************************************************************************)
C4_Byte8193 ==
    /\ last.err = "nil"
    /\ (calls > 0 /\ last.off < BufSize /\ last.off + last.plen > BufSize =>
            last.n = BufSize - last.off)
    /\ (calls > 0 /\ last.off >= BufSize /\ last.plen > 0 =>
            last.n = Min(last.plen, BufSize) /\ last.n > 0)
    /\ (outLen > BufSize =>
            Bytes(out)[BufSize + 1] = Sum(SHA256(newRand(seed).data))[1])

\* past the first buffer, a Read cut short at the end of the recycled buffer
C4_Witness ==
    /\ outLen > BufSize /\ cycles >= 1
    /\ last.off < BufSize /\ last.off + last.plen > BufSize /\ last.n < last.plen

(***************************************************************************)
(* C8: right after newRand(seed) the buffer is a hash chain: its first 32  *)
(* bytes are SHA-256(seed), every later 32-byte block is SHA-256 of the    *)
(* block before it, and the cursor is 0.                                   *)
(***************************************************************************)
BlockOffsets == {i \in HashSize..(BufSize - 1) : i % HashSize = 0}

C8_HashChain ==
    calls = 0 =>
        LET buffer == Bytes(r.data)
        IN  /\ Len(buffer) = BufSize
            /\ r.offset = 0
            /\ Slice(buffer, 0, HashSize) = Sum(SHA256(seed))
            /\ \A i \in BlockOffsets :
                  Slice(buffer, i, i + HashSize) = Sum(SHA256(Slice(buffer, i - HashSize, i)))

C8_Witness ==
    calls = 0 /\ Len(seed) > 0 /\ Bytes(r.data)[BufSize].d.depth = BufSize \div HashSize

(***************************************************************************)
(* C9 (as stated): after the first recycling the buffer is the 32-byte     *)
(* digest repeated across the buffer.                                      *)
(***************************************************************************)
C9_DigestRepeated ==
    cycles >= 1 =>
        LET buffer == Bytes(r.data)
        IN  \A j \in 1..Len(buffer) : buffer[j] = buffer[((j - 1) % HashSize) + 1]

(***************************************************************************)
(* C9 (amended): a Read entered with the cursor at the buffer end writes   *)
(* SHA-256 of the full buffer over the first 32 bytes of the buffer and    *)
(* leaves the other 8160 bytes as they were, resets the cursor to 0 and    *)
(* then copies from the start of the buffer.                               *)
(***************************************************************************)
C9_RecycleStep ==
    LET before == Bytes(r.data)
        after  == Bytes(r'.data)
    IN  (r.offset >= Len(before) /\ calls' = calls + 1) =>
            /\ after = Sum(SHA256(before)) \o Slice(before, HashSize, Len(before))
            /\ r'.offset = last'.n
            /\ Bytes(out') = Bytes(out) \o Slice(after, 0, last'.n)

C9_FirstBlockOnly == [][C9_RecycleStep]_vars

C9_Witness == cycles >= 1 /\ last.off >= BufSize /\ last.n > HashSize

(***************************************************************************)
(* C10: the cursor stays in 0..8192 and the buffer stays 8192 bytes long;  *)
(* every Read with a non-empty p returns n >= 1 and no error; and a caller *)
(* that repeats Read until it has collected the bytes it wants gets them   *)
(* all after finitely many calls.                                          *)
(***************************************************************************)
C10_State ==
    /\ r.offset \in 0..BufSize
    /\ ByteLen(r.data) = BufSize
    /\ (calls > 0 => last.err = "nil")
    /\ (calls > 0 /\ last.plen >= 1 => last.n >= 1)

C10_Progress == []C10_State /\ <>(outLen = want)

\* collected across a recycling, the last Read entered at the buffer end
C10_Witness ==
    /\ outLen = want /\ want > BufSize
    /\ last.off >= BufSize /\ last.plen >= 1 /\ last.n >= 1

(***************************************************************************)
(* C5: in generateKey the 32-byte private-key seed is the first 32 bytes   *)
(* of a fresh stream for the name, which are SHA-256(name); generateKey    *)
(* makes a single Read of 32 bytes, at cursor 0, which returns 32 bytes    *)
(* and does not recycle the buffer; the same name gives the same seed.     *)
(***************************************************************************)
SeedRead(p) == pc[p] \in {"derive", "export", "call", "wait", "return", "exit0", "exit1"}

C5_Seed32 ==
    /\ \A p \in Procs : SeedRead(p) =>
          /\ seedBytes[p] = Sum(SHA256(name[p]))
          /\ reads[p] = << [plen |-> HashSize, n |-> HashSize, err |-> "nil", off |-> 0] >>
    /\ \A p \in Procs : pc[p] = "derive" =>
          \E fresh \in {newRand(name[p])} :
              /\ seedBytes[p] = Slice(fresh.data, 0, HashSize)
              /\ Unpack(reader[p]) = [data |-> fresh.data, offset |-> HashSize]
    /\ \A p, q \in Procs :
          SeedRead(p) /\ SeedRead(q) /\ name[p] = name[q] => seedBytes[p] = seedBytes[q]

\* two runs with one name and a third state of the same run past the read
C5_Witness ==
    /\ pc[1] = "derive" /\ pc[2] = "export"
    /\ name[1] = name[2]

(***************************************************************************)
(* C6: under every interleaving of concurrent NewKeyGen calls, each call   *)
(* returns the key ID and the key data that generateKey gives for its name *)
(* when run alone.                                                         *)
(***************************************************************************)
C6_AsAlone ==
    \A p \in Procs : pc[p] = "call" => gen[p] = generateKey(name[p])

\* one NewKeyGen has returned while another, for another name, is between
\* its Read and its derivation
C6_Witness ==
    /\ pc[1] = "call" /\ pc[2] = "derive"
    /\ name[1] # name[2]

(***************************************************************************)
(* C7: GenerateAndImportKey(name) calls ImportKey exactly once, with the   *)
(* name and the generator's key data, never a second time, and returns an  *)
(* error if and only if that call returned one.                            *)
(***************************************************************************)
C7_ImportOnce ==
    \A p \in Procs :
        /\ Len(imports[p]) <= 1
        /\ pc[p] \in {"wait", "return", "exit0", "exit1"} =>
              imports[p] = << [name |-> name[p], keyData |-> gen[p].keyData] >>
        /\ pc[p] \in {"newRand", "read", "derive", "export", "call"} => imports[p] = <<>>
        /\ pc[p] \in {"exit0", "exit1"} =>
              /\ (ret[p] # NoErr) <=> (importErr[p] # "nil")
              /\ (pc[p] = "exit1") <=> (importErr[p] # "nil")

\* GenerateAndImportKey has returned the error of its one ImportKey call,
\* while another run waits for the answer to its own
C7_Witness ==
    \E p \in Procs : \E q \in Procs \ {p} :
        /\ pc[p] = "exit1" /\ importErr[p] # "nil"
        /\ Len(imports[p]) = 1 /\ ret[p].cause = importErr[p]
        /\ pc[q] = "wait"

=============================================================================
